---- MODULE Spec2Model ----
(***************************************************************************)
(* A model of Blockcraft.py: the Block / Blockchain ledger engine and the  *)
(* part of BlockchainGUI that drives it (send_transaction, mine_block and  *)
(* the mining worker thread).                                              *)
(*                                                                         *)
(* Sequences are 1-based here: chain[1] is the genesis block, and a        *)
(* block's own index field keeps the 0-based value the program stores.     *)
(***************************************************************************)
EXTENDS Integers, Sequences, FiniteSets, TLC

(* ------------------------------ bounds --------------------------------- *)
MaxChain == 3          \* blocks in the chain, genesis included
MaxTx == 2             \* transfers admitted in one run
MaxTime == 1           \* clock ticks in one run
MaxThreads == 2        \* worker threads alive at once
MaxTamper == 1         \* field overwrites in one run

(* ------------------------- program constants --------------------------- *)
InitialDifficulty == 2
InitialMiningReward == 100
TicksPerSecond == 2    \* time.time() is finer than the "%S" of strftime

Addresses == {"A", "B"}
Amounts == {50}

VARIABLES
    chain,                  \* Blockchain.chain
    pending_transactions,   \* Blockchain.pending_transactions
    difficulty,             \* Blockchain.difficulty
    mining_reward,          \* Blockchain.mining_reward
    now,                    \* the wall clock read by time.time() / datetime.now()
    nextId,                 \* identity of the next transaction object created
    admitted,               \* identities of the objects passed to add_transaction
    threads,                \* the mining worker threads and their position
    after_queue,            \* callbacks scheduled with root.after(0, ...)
    mine_button,            \* state of the mine button widget
    lastOp,                 \* the last operation the caller or the shell ran,
                            \* with the text of the dialog it showed
    tampered                \* number of direct field overwrites so far

vars == <<chain, pending_transactions, difficulty, mining_reward, now, nextId,
          admitted, threads, after_queue, mine_button, lastOp, tampered>>

ledgerVars == <<chain, pending_transactions, difficulty, mining_reward>>
guiVars == <<threads, after_queue, mine_button>>

(* ------------------------------ helpers -------------------------------- *)
Min(a, b) == IF a < b THEN a ELSE b

\* s[:n] of Python
Take(s, n) == SubSeq(s, 1, Min(n, Len(s)))

\* "0" * n
Zeros(n) == [i \in 1..n |-> 0]

RECURSIVE SumSeq(_)
SumSeq(s) == IF s = <<>> THEN 0 ELSE Head(s) + SumSeq(Tail(s))

\* datetime.now().strftime("%Y-%m-%d %H:%M:%S"): the clock cut to whole seconds
Strftime(t) == t \div TicksPerSecond

(* ------------------------------ hashing -------------------------------- *)
(* SHA-256 is modelled as an ideal hash.  A digest has two parts:          *)
(*   hex : its leading hexadecimal characters, which the proof of work     *)
(*         inspects; they are taken from DigestTable at a position that    *)
(*         depends on every hashed field, the nonce included;              *)
(*   of  : the rest of the digest, which by collision resistance differs   *)
(*         whenever the serialised fields differ; it is represented by     *)
(*         the serialised fields themselves.                               *)
DigestTable == << <<10, 3, 0>>, <<0, 7, 12>>, <<0, 0, 5>>,
                  <<15, 0, 0>>, <<0, 0, 0>>, <<0, 9, 0>> >>

HexLen == Len(DigestTable[1])

\* the string "0" used as the genesis block's previous_hash
ZeroHash == [hex |-> <<0>>, of |-> <<>>]

\* what json.dumps sees of a transaction dict: its keys and values, not the
\* identity of the object
Content(tx) == [from |-> tx.from, to |-> tx.to, amount |-> tx.amount,
                timestamp |-> tx.timestamp, type |-> tx.type]

Contents(txs) == [i \in 1..Len(txs) |-> Content(txs[i])]

TxWeight(tx) == tx.amount \div 10 + tx.timestamp
                + (IF tx.from = "A" THEN 1 ELSE 2) + (IF tx.to = "A" THEN 3 ELSE 5)

Weight(index, transactions, timestamp, previous_hash, nonce) ==
    index + 2 * timestamp + nonce + SumSeq(previous_hash.hex)
    + SumSeq([i \in 1..Len(transactions) |-> TxWeight(transactions[i])])

Sha256Hex(index, transactions, timestamp, previous_hash, nonce) ==
    [hex |-> DigestTable[(Weight(index, transactions, timestamp,
                                 previous_hash, nonce) % Len(DigestTable)) + 1],
     of  |-> <<index, Contents(transactions), timestamp, previous_hash, nonce>>]

\* Block.calculate_hash
calculate_hash(b) ==
    Sha256Hex(b.index, b.transactions, b.timestamp, b.previous_hash, b.nonce)

(* ------------------------------- Block --------------------------------- *)
\* Block.__init__ with the default nonce=0
Block(index, transactions, timestamp, previous_hash) ==
    LET b == [index |-> index, transactions |-> transactions,
              timestamp |-> timestamp, previous_hash |-> previous_hash,
              nonce |-> 0, hash |-> ZeroHash]
    IN  [b EXCEPT !.hash = calculate_hash(b)]

\* the loop condition comparing one character too few
NeedsWork_OneShort(b, d) == Take(b.hash.hex, d - 1) # Zeros(d - 1)

\* the loop condition with the target fixed at "00", whatever the difficulty
NeedsWork_FixedTarget(b, d) == Take(b.hash.hex, 2) # Zeros(2)

\* the loop condition of Block.mine_block
NeedsWork(b, d) == Take(b.hash.hex, d) # Zeros(d)

\* the loop body with its two statements swapped: the hash is recomputed
\* before the nonce is incremented
MineStep_StaleHash(b) ==
    LET b1 == [b EXCEPT !.hash = calculate_hash(b)]
    IN  [b1 EXCEPT !.nonce = b.nonce + 1]

\* one iteration of the loop of Block.mine_block
MineStep(b) ==
    LET b1 == [b EXCEPT !.nonce = b.nonce + 1]
    IN  [b1 EXCEPT !.hash = calculate_hash(b1)]

\* the search written as do-while: the nonce is incremented before the
\* first test
RECURSIVE mine_block_DoWhile(_, _)
mine_block_DoWhile(b, d) ==
    LET b1 == MineStep(b)
    IN  IF NeedsWork(b1, d) THEN mine_block_DoWhile(b1, d) ELSE b1

\* Block.mine_block
RECURSIVE mine_block(_, _)
mine_block(b, d) == IF NeedsWork(b, d) THEN mine_block(MineStep(b), d) ELSE b

(* ----------------------------- Blockchain ------------------------------ *)
\* Blockchain.create_genesis_block
create_genesis_block(t) == Block(0, <<>>, t, ZeroHash)

\* Blockchain.get_latest_block
get_latest_block(c) == c[Len(c)]

\* the reward dict built by mine_pending_transactions
RewardTransaction(mining_reward_address, reward, t, id) ==
    [id |-> id, from |-> "SYSTEM", to |-> mining_reward_address,
     amount |-> reward, timestamp |-> Strftime(t), type |-> "mining_reward"]

\* the reward put in front of the copied pool
TransactionsToMine_RewardFirst(pool, mining_reward_address, reward, t, id) ==
    <<RewardTransaction(mining_reward_address, reward, t, id)>> \o pool

\* the pool left out: the block holds the reward alone
TransactionsToMine_RewardOnly(pool, mining_reward_address, reward, t, id) ==
    <<RewardTransaction(mining_reward_address, reward, t, id)>>

\* transactions_to_mine after the copy and the append of the reward
TransactionsToMine(pool, mining_reward_address, reward, t, id) ==
    Append(pool, RewardTransaction(mining_reward_address, reward, t, id))

\* the new block linked to the first block of the chain instead of the last
NewBlock_LinksFirst(c, transactions_to_mine, t) ==
    Block(Len(c), transactions_to_mine, t, c[1].hash)

\* the Block(...) construction inside mine_pending_transactions
NewBlock(c, transactions_to_mine, t) ==
    Block(Len(c), transactions_to_mine, t, get_latest_block(c).hash)

\* identity of the reward object created while the chain has n blocks
RewardId(n) == 0 - n

\* the second test written as elif: a transaction is counted once at most
RECURSIVE BalanceOverTxs_Elif(_, _, _)
BalanceOverTxs_Elif(txs, address, balance) ==
    IF txs = <<>> THEN balance
    ELSE LET tx == Head(txs)
             b2 == IF tx.from = address THEN balance - tx.amount
                   ELSE IF tx.to = address THEN balance + tx.amount
                   ELSE balance
         IN  BalanceOverTxs_Elif(Tail(txs), address, b2)

\* Blockchain.get_balance: the two nested loops with a running balance
RECURSIVE BalanceOverTxs(_, _, _)
BalanceOverTxs(txs, address, balance) ==
    IF txs = <<>> THEN balance
    ELSE LET tx == Head(txs)
             b1 == IF tx.from = address THEN balance - tx.amount ELSE balance
             b2 == IF tx.to = address THEN b1 + tx.amount ELSE b1
         IN  BalanceOverTxs(Tail(txs), address, b2)

RECURSIVE BalanceOverBlocks(_, _, _)
BalanceOverBlocks(c, address, balance) ==
    IF c = <<>> THEN balance
    ELSE BalanceOverBlocks(Tail(c), address,
                           BalanceOverTxs(Head(c).transactions, address, balance))

get_balance(c, address) == BalanceOverBlocks(c, address, 0)

\* Blockchain.is_chain_valid: i runs over range(1, len(chain)), which is
\* positions 2..Len(c) here, and the first failed check returns False
RECURSIVE ValidFrom(_, _)
ValidFrom(c, i) ==
    IF i > Len(c) THEN TRUE
    ELSE IF c[i].hash # calculate_hash(c[i]) THEN FALSE
    ELSE IF c[i].previous_hash # c[i-1].hash THEN FALSE
    ELSE ValidFrom(c, i + 1)

is_chain_valid(c) == ValidFrom(c, 2)

(* ------------------------------- state --------------------------------- *)
\* a worker: pool is its local transactions_to_mine, and same_list tells
\* whether that name is bound to the very list object the ledger's
\* pending_transactions is bound to (transactions_to_mine is
\* self.pending_transactions)
IdleThread == [pc |-> "idle", miner |-> "", pool |-> <<>>, same_list |-> FALSE,
               block |-> <<>>]

NoOp == [op |-> "init", who |-> "", msg |-> ""]

InitWith(d) ==
    /\ now = 0
    /\ chain = <<create_genesis_block(0)>>
    /\ difficulty = d
    /\ pending_transactions = <<>>
    /\ mining_reward = InitialMiningReward
    /\ nextId = 1
    /\ admitted = {}
    /\ threads = [w \in 1..MaxThreads |-> IdleThread]
    /\ after_queue = <<>>
    /\ mine_button = "normal"
    /\ lastOp = NoOp
    /\ tampered = 0

\* Blockchain.__init__ (and BlockchainGUI.__init__ around it)
Init == InitWith(InitialDifficulty)

\* the clock advances between any two steps of the program
Tick ==
    /\ now < MaxTime
    /\ now' = now + 1
    /\ UNCHANGED <<ledgerVars, guiVars, nextId, admitted, lastOp, tampered>>

(* --------------------- the ledger API, called in sequence -------------- *)
\* a transfer dict as the callers of add_transaction build it
Transfer(from, to, amount, t, id) ==
    [id |-> id, from |-> from, to |-> to, amount |-> amount,
     timestamp |-> Strftime(t), type |-> "transfer"]

\* add_transaction turning away a transfer its sender cannot afford
add_transaction_Checked(transaction) ==
    IF get_balance(chain, transaction.from) >= transaction.amount
    THEN /\ pending_transactions' = Append(pending_transactions, transaction)
         /\ admitted' = admitted \cup {transaction.id}
         /\ UNCHANGED <<chain, difficulty, mining_reward>>
    ELSE UNCHANGED <<pending_transactions, admitted, chain, difficulty,
                     mining_reward>>

\* Blockchain.add_transaction
add_transaction(transaction) ==
    /\ pending_transactions' = Append(pending_transactions, transaction)
    /\ admitted' = admitted \cup {transaction.id}
    /\ UNCHANGED <<chain, difficulty, mining_reward>>

AddTransaction ==
    \E from \in Addresses, to \in Addresses, amount \in Amounts :
        /\ nextId <= MaxTx
        /\ add_transaction(Transfer(from, to, amount, now, nextId))
        /\ nextId' = nextId + 1
        /\ lastOp' = [op |-> "add_transaction", who |-> from, msg |-> ""]
        /\ UNCHANGED <<guiVars, now, tampered>>

\* mine_pending_transactions without its assignment of [] to the pool
mine_pending_transactions_NoClear(mining_reward_address) ==
    LET transactions_to_mine ==
            TransactionsToMine(pending_transactions, mining_reward_address,
                               mining_reward, now, RewardId(Len(chain)))
        block == mine_block(NewBlock(chain, transactions_to_mine, now), difficulty)
    IN  /\ chain' = Append(chain, block)
        /\ UNCHANGED <<pending_transactions, difficulty, mining_reward>>

\* mine_pending_transactions putting the new block in front of the chain
mine_pending_transactions_InsertsFirst(mining_reward_address) ==
    LET transactions_to_mine ==
            TransactionsToMine(pending_transactions, mining_reward_address,
                               mining_reward, now, RewardId(Len(chain)))
        block == mine_block(NewBlock(chain, transactions_to_mine, now), difficulty)
    IN  /\ chain' = <<block>> \o chain
        /\ pending_transactions' = <<>>
        /\ UNCHANGED <<difficulty, mining_reward>>

\* Blockchain.mine_pending_transactions, run from its first line to its
\* return with nothing else in between
mine_pending_transactions(mining_reward_address) ==
    LET transactions_to_mine ==
            TransactionsToMine(pending_transactions, mining_reward_address,
                               mining_reward, now, RewardId(Len(chain)))
        block == mine_block(NewBlock(chain, transactions_to_mine, now), difficulty)
    IN  /\ chain' = Append(chain, block)
        /\ pending_transactions' = <<>>
        /\ UNCHANGED <<difficulty, mining_reward>>

MinePendingTransactions ==
    \E r \in Addresses :
        /\ Len(chain) < MaxChain
        /\ mine_pending_transactions(r)
        /\ lastOp' = [op |-> "mine_pending_transactions", who |-> r, msg |-> ""]
        /\ UNCHANGED <<guiVars, now, nextId, admitted, tampered>>

Next == AddTransaction \/ MinePendingTransactions \/ Tick

Spec == Init /\ [][Next]_vars

(* ------------- the ledger configured with any difficulty --------------- *)
InitPow == \E d \in 0..HexLen : InitWith(d)

SpecPow == InitPow /\ [][Next]_vars

(* ------------------ the ledger API with its two queries --------------- *)
\* the result a query handed back, as the caller keeps it
Returned(op, arg, value) == [op |-> op, who |-> arg, msg |-> ToString(value)]

\* a get_balance that takes the blocks off the chain while it scans them
get_balance_call_Popping(address) ==
    /\ lastOp' = Returned("get_balance", address, get_balance(chain, address))
    /\ chain' = <<chain[1]>>
    /\ UNCHANGED <<pending_transactions, difficulty, mining_reward>>

\* a call of Blockchain.get_balance: it assigns to nothing but its local
get_balance_call(address) ==
    /\ lastOp' = Returned("get_balance", address, get_balance(chain, address))
    /\ UNCHANGED ledgerVars

GetBalance ==
    \E address \in Addresses :
        /\ get_balance_call(address)
        /\ UNCHANGED <<guiVars, now, nextId, admitted, tampered>>

\* a call of Blockchain.is_chain_valid: it assigns to nothing but its locals
IsChainValid ==
    /\ lastOp' = Returned("is_chain_valid", "", is_chain_valid(chain))
    /\ UNCHANGED <<ledgerVars, guiVars, now, nextId, admitted, tampered>>

NextQuery == Next \/ GetBalance \/ IsChainValid

SpecQuery == Init /\ [][NextQuery]_vars

(* ------------------- BlockchainGUI and its worker thread --------------- *)
\* the snapshot taken without copy(): the name is bound to the pool's own
\* list object
ListCopy_SameObject(l) == [items |-> l, same_list |-> TRUE]

\* list.copy(): a new list object holding the items of l
ListCopy(l) == [items |-> l, same_list |-> FALSE]

\* what the names bound to the pool's list object show once the pool holds
\* `pool`: the worker's transactions_to_mine, and the transactions of the
\* block built from it, which Block.__init__ stores without copying
SeenByWorkers(ths, pool) ==
    [w \in DOMAIN ths |->
        IF ths[w].same_list
        THEN [ths[w] EXCEPT
                !.pool = pool,
                !.block = IF ths[w].pc \in {"copy", "build"} THEN @
                          ELSE [@ EXCEPT !.transactions = pool]]
        ELSE ths[w]]

AddressTexts == {"", "A", "B"}

\* what the user may have typed into the three entries of the send form:
\* every well-formed transfer, and one form for each way of being malformed
FormInputs ==
    (Addresses \X Addresses \X {"80"})
        \cup {<<"", "B", "80">>, <<"A", "", "80">>, <<"A", "B", "0">>,
              <<"A", "B", "abc">>, <<"", "", "abc">>}

\* float(text): the number, or the ValueError it raises
Float(text) ==
    CASE text = "0" -> [ok |-> TRUE, value |-> 0]
      [] text = "80" -> [ok |-> TRUE, value |-> 80]
      [] OTHER -> [ok |-> FALSE, value |-> 0]

\* the operation op of the shell, and the text of the dialog it showed
Shown(op, text) == [op |-> op, who |-> "", msg |-> text]

\* send_transaction without the return after the balance error: the error
\* is shown and the transfer is admitted all the same
send_transaction_NoReturn(from_addr, to_addr, amount_text) ==
    LET amount == Float(amount_text) IN
    IF ~amount.ok THEN
        /\ lastOp' = Shown("send_transaction", "Please enter a valid amount")
        /\ UNCHANGED <<ledgerVars, admitted, nextId>>
    ELSE IF from_addr = "" \/ to_addr = "" THEN
        /\ lastOp' = Shown("send_transaction", "Please fill all fields")
        /\ UNCHANGED <<ledgerVars, admitted, nextId>>
    ELSE IF amount.value <= 0 THEN
        /\ lastOp' = Shown("send_transaction", "Amount must be positive")
        /\ UNCHANGED <<ledgerVars, admitted, nextId>>
    ELSE
        /\ add_transaction(Transfer(from_addr, to_addr, amount.value, now, nextId))
        /\ nextId' = nextId + 1
        /\ lastOp' = Shown("send_transaction", "Transaction added to pending list!")

\* BlockchainGUI.send_transaction; the display refresh at its end only reads
send_transaction(from_addr, to_addr, amount_text) ==
    LET amount == Float(amount_text) IN
    IF ~amount.ok THEN
        /\ lastOp' = Shown("send_transaction", "Please enter a valid amount")
        /\ UNCHANGED <<ledgerVars, admitted, nextId>>
    ELSE IF from_addr = "" \/ to_addr = "" THEN
        /\ lastOp' = Shown("send_transaction", "Please fill all fields")
        /\ UNCHANGED <<ledgerVars, admitted, nextId>>
    ELSE IF amount.value <= 0 THEN
        /\ lastOp' = Shown("send_transaction", "Amount must be positive")
        /\ UNCHANGED <<ledgerVars, admitted, nextId>>
    ELSE IF get_balance(chain, from_addr) < amount.value THEN
        /\ lastOp' = Shown("send_transaction", "Insufficient balance")
        /\ UNCHANGED <<ledgerVars, admitted, nextId>>
    ELSE
        /\ add_transaction(Transfer(from_addr, to_addr, amount.value, now, nextId))
        /\ nextId' = nextId + 1
        /\ lastOp' = Shown("send_transaction", "Transaction added to pending list!")

SendTransaction ==
    \E form \in FormInputs :
        /\ nextId <= MaxTx
        /\ send_transaction(form[1], form[2], form[3])
        /\ threads' = SeenByWorkers(threads, pending_transactions')
        /\ UNCHANGED <<after_queue, mine_button, now, tampered>>

\* a mine_pending_transactions call that has started and not yet returned
InFlight(w) == threads[w].pc \in {"copy", "build", "pow", "append", "clear"}

Running == {w \in 1..MaxThreads : threads[w].pc # "idle"}

\* threading.Thread(target=self._mine_worker, args=(miner_address,)).start()
StartThread(miner_address) ==
    LET w == CHOOSE v \in 1..MaxThreads :
                 /\ threads[v].pc = "idle"
                 /\ \A u \in 1..(v - 1) : threads[u].pc # "idle"
    IN  threads' = [threads EXCEPT ![w] = [IdleThread EXCEPT
                                               !.pc = "copy",
                                               !.miner = miner_address]]

\* mine_block without the line that disables the button
GUI_mine_block_NoDisable(miner_address) ==
    IF miner_address = "" THEN
        /\ lastOp' = Shown("mine_block", "Please enter miner address")
        /\ UNCHANGED <<mine_button, threads>>
    ELSE
        /\ StartThread(miner_address)
        /\ lastOp' = Shown("mine_block", "")
        /\ UNCHANGED mine_button

\* BlockchainGUI.mine_block
GUI_mine_block(miner_address) ==
    IF miner_address = "" THEN
        /\ lastOp' = Shown("mine_block", "Please enter miner address")
        /\ UNCHANGED <<mine_button, threads>>
    ELSE
        /\ mine_button' = "disabled"
        /\ StartThread(miner_address)
        /\ lastOp' = Shown("mine_block", "")

\* a click on the mine button: Tk runs the command of a button only while
\* the button is not disabled
ClickMine ==
    \E miner_address \in AddressTexts :
        /\ mine_button = "normal"
        /\ Cardinality(Running) < MaxThreads
        /\ Len(chain) + Cardinality(Running) + Len(after_queue) < MaxChain
        /\ GUI_mine_block(miner_address)
        /\ UNCHANGED <<ledgerVars, after_queue, now, nextId, admitted, tampered>>

\* mine_pending_transactions on the worker, statement by statement
\* transactions_to_mine = self.pending_transactions.copy()
WorkerCopy(w) ==
    /\ threads[w].pc = "copy"
    /\ LET transactions_to_mine == ListCopy(pending_transactions)
       IN  threads' = [threads EXCEPT
                          ![w].pool = transactions_to_mine.items,
                          ![w].same_list = transactions_to_mine.same_list,
                          ![w].pc = "build"]
    /\ UNCHANGED <<ledgerVars, after_queue, mine_button, now, nextId, admitted,
                   lastOp, tampered>>

\* the candidate block appended to the chain as soon as it is built, before
\* the proof of work
WorkerBuild_AppendsFirst(w) ==
    /\ threads[w].pc = "build"
    /\ LET transactions_to_mine ==
               TransactionsToMine(threads[w].pool, threads[w].miner,
                                  mining_reward, now, RewardId(Len(chain)))
       IN  /\ threads' = [threads EXCEPT
                            ![w].pool = transactions_to_mine,
                            ![w].block = NewBlock(chain, transactions_to_mine, now),
                            ![w].pc = "pow"]
           /\ chain' = Append(chain, NewBlock(chain, transactions_to_mine, now))
    /\ UNCHANGED <<pending_transactions, difficulty, mining_reward, after_queue,
                   mine_button, now, nextId, admitted, lastOp, tampered>>

\* the reward dict, its append and the Block(...) construction
WorkerBuild(w) ==
    /\ threads[w].pc = "build"
    /\ LET transactions_to_mine ==
               TransactionsToMine(threads[w].pool, threads[w].miner,
                                  mining_reward, now, RewardId(Len(chain)))
       IN  /\ threads' = [threads EXCEPT
                              ![w].pool = transactions_to_mine,
                              ![w].block = NewBlock(chain, transactions_to_mine, now),
                              ![w].pc = "pow"]
           \* the append of the reward is an append to the worker's own list
           /\ pending_transactions' = IF threads[w].same_list
                                      THEN transactions_to_mine
                                      ELSE pending_transactions
    /\ UNCHANGED <<chain, difficulty, mining_reward, after_queue, mine_button,
                   now, nextId, admitted, lastOp, tampered>>

\* block.mine_block(self.difficulty): one test of the loop condition, and
\* one iteration of the body when it holds
WorkerPow(w) ==
    /\ threads[w].pc = "pow"
    /\ IF NeedsWork(threads[w].block, difficulty)
       THEN threads' = [threads EXCEPT ![w].block = MineStep(threads[w].block)]
       ELSE threads' = [threads EXCEPT ![w].pc = "append"]
    /\ UNCHANGED <<ledgerVars, after_queue, mine_button, now, nextId, admitted,
                   lastOp, tampered>>

\* self.chain.append(block)
WorkerAppend(w) ==
    /\ threads[w].pc = "append"
    /\ chain' = Append(chain, threads[w].block)
    /\ threads' = [threads EXCEPT ![w].pc = "clear"]
    /\ UNCHANGED <<pending_transactions, difficulty, mining_reward, after_queue,
                   mine_button, now, nextId, admitted, lastOp, tampered>>

\* self.pending_transactions = []: the attribute is bound to a new list
\* object, which no worker holds
WorkerClear(w) ==
    /\ threads[w].pc = "clear"
    /\ pending_transactions' = <<>>
    /\ threads' = [v \in 1..MaxThreads |->
                      [threads[v] EXCEPT !.same_list = FALSE,
                                         !.pc = IF v = w THEN "post" ELSE @]]
    /\ UNCHANGED <<chain, difficulty, mining_reward, after_queue, mine_button,
                   now, nextId, admitted, lastOp, tampered>>

\* the worker ending without scheduling _mining_complete
WorkerPost_NoCallback(w) ==
    /\ threads[w].pc = "post"
    /\ threads' = [threads EXCEPT ![w] = IdleThread]
    /\ UNCHANGED <<ledgerVars, after_queue, mine_button, now, nextId, admitted,
                   lastOp, tampered>>

\* back in _mine_worker: self.root.after(0, lambda: self._mining_complete(...)),
\* after which the thread ends
WorkerPost(w) ==
    /\ threads[w].pc = "post"
    /\ after_queue' = Append(after_queue, [block |-> threads[w].block,
                                           miner_address |-> threads[w].miner])
    /\ threads' = [threads EXCEPT ![w] = IdleThread]
    /\ UNCHANGED <<ledgerVars, mine_button, now, nextId, admitted, lastOp,
                   tampered>>

mine_worker == \E w \in 1..MaxThreads :
    \/ WorkerCopy(w) \/ WorkerBuild(w) \/ WorkerPow(w)
    \/ WorkerAppend(w) \/ WorkerClear(w) \/ WorkerPost(w)

\* BlockchainGUI._mining_complete, run by the event loop on the main thread
MiningComplete ==
    /\ after_queue # <<>>
    /\ LET block == Head(after_queue).block
           regular_transactions ==
               SelectSeq(block.transactions, LAMBDA tx : tx.type # "mining_reward")
       IN  lastOp' = Shown("_mining_complete",
                           IF regular_transactions # <<>>
                           THEN "Block mined! Processed transactions"
                           ELSE "Block mined! Miner earned 100 coins")
    /\ mine_button' = "normal"
    /\ after_queue' = Tail(after_queue)
    /\ UNCHANGED <<ledgerVars, threads, now, nextId, admitted, tampered>>

NextGUI == SendTransaction \/ ClickMine \/ mine_worker \/ MiningComplete \/ Tick

SpecGUI == Init /\ [][NextGUI]_vars

(* ---------------- mining to completion, under fairness ----------------- *)
(* The worker is a thread of its own that the interpreter keeps           *)
(* scheduling, and the Tk event loop runs every callback handed to         *)
(* root.after: both keep taking their steps.  The user sends well-formed   *)
(* transfers between the two addresses and clicks the mine button.         *)
TransferForms == {<<"A", "B", "80">>, <<"B", "A", "80">>}

SendTransfer ==
    \E form \in TransferForms :
        /\ nextId <= MaxTx
        /\ send_transaction(form[1], form[2], form[3])
        /\ threads' = SeenByWorkers(threads, pending_transactions')
        /\ UNCHANGED <<after_queue, mine_button, now, tampered>>

NextMining == SendTransfer \/ ClickMine \/ mine_worker \/ MiningComplete

SpecGUIFair ==
    /\ Init
    /\ [][NextMining]_vars
    /\ WF_vars(mine_worker)
    /\ WF_vars(MiningComplete)

(* ------------- the shell used with the name SYSTEM typed in ------------ *)
(* The entries of the shell take any text, the name "SYSTEM" that          *)
(* mine_pending_transactions gives to the sender of a reward included:     *)
(* neither send_transaction nor mine_block compares an address with it.    *)
SystemForms == {<<"A", "B", "80">>, <<"A", "SYSTEM", "80">>, <<"SYSTEM", "A", "80">>}

MinerTexts == {"A", "SYSTEM"}

SendNamingSystem ==
    \E form \in SystemForms :
        /\ nextId <= MaxTx
        /\ send_transaction(form[1], form[2], form[3])
        /\ threads' = SeenByWorkers(threads, pending_transactions')
        /\ UNCHANGED <<after_queue, mine_button, now, tampered>>

ClickMineNamingSystem ==
    \E miner_address \in MinerTexts :
        /\ mine_button = "normal"
        /\ Cardinality(Running) < MaxThreads
        /\ Len(chain) + Cardinality(Running) + Len(after_queue) < MaxChain
        /\ GUI_mine_block(miner_address)
        /\ UNCHANGED <<ledgerVars, after_queue, now, nextId, admitted, tampered>>

NextSystem == SendNamingSystem \/ ClickMineNamingSystem \/ mine_worker
              \/ MiningComplete

SpecGUISystem == Init /\ [][NextSystem]_vars

(* ------------- the ledger with its blocks overwritten in place --------- *)
(* Block keeps its fields as plain attributes, so any holder of the chain  *)
(* can assign to them.  Tamper overwrites one field of one block with a    *)
(* different value.                                                        *)
TamperFields == {"index", "transactions", "timestamp", "previous_hash", "nonce", "hash"}

\* the digests an overwrite of previous_hash or hash may put in place
ForgedHashes(c, i) ==
    {ZeroHash, calculate_hash(c[i])} \cup {c[j].hash : j \in 1..Len(c)}

Overwrites(c, i, field) ==
    CASE field = "index" -> {[c[i] EXCEPT !.index = @ + 1]}
      [] field = "timestamp" -> {[c[i] EXCEPT !.timestamp = @ + 1]}
      [] field = "nonce" -> {[c[i] EXCEPT !.nonce = @ + 1]}
      [] field = "transactions" ->
            {[c[i] EXCEPT !.transactions[j].amount = @ + 1] :
                 j \in 1..Len(c[i].transactions)}
      [] field = "previous_hash" ->
            {[c[i] EXCEPT !.previous_hash = h] :
                 h \in ForgedHashes(c, i) \ {c[i].previous_hash}}
      [] field = "hash" ->
            {[c[i] EXCEPT !.hash = h] : h \in ForgedHashes(c, i) \ {c[i].hash}}

Tamper ==
    \E i \in 1..Len(chain), field \in TamperFields :
        \E b \in Overwrites(chain, i, field) :
            /\ tampered < MaxTamper
            /\ chain' = [chain EXCEPT ![i] = b]
            /\ tampered' = tampered + 1
            /\ lastOp' = [op |-> "tamper", who |-> field, msg |-> ""]
            /\ UNCHANGED <<pending_transactions, difficulty, mining_reward,
                           guiVars, now, nextId, admitted>>

NextTamper == Next \/ Tamper

SpecTamper == Init /\ [][NextTamper]_vars

(* ============================== properties ============================= *)
Positions(c) == {p \in (1..Len(c)) \X (1..MaxTx + 1) :
                     p[2] <= Len(c[p[1]].transactions)}

TxAt(c, p) == c[p[1]].transactions[p[2]]

\* in how many places of the pool, and of the sealed blocks, the object is
PendingCount(pool, id) == Cardinality({j \in 1..Len(pool) : pool[j].id = id})
SealedCount(c, id) == Cardinality({p \in Positions(c) : TxAt(c, p).id = id})

Mined == lastOp.op = "mine_pending_transactions"

(* C1: in every state reached by add_transaction and                       *)
(* mine_pending_transactions calls, each block after the genesis block     *)
(* stores as previous_hash the hash of the block before it.                *)
C1_Linked == \A i \in 2..Len(chain) : chain[i].previous_hash = chain[i-1].hash

C1_Witness == Mined /\ Len(chain) = 3 /\ chain[3].previous_hash = chain[2].hash
              /\ chain[2].hash # chain[1].hash

(* C2: in every such state the stored hash of every block, genesis         *)
(* included, is calculate_hash() of its index, transactions, timestamp,    *)
(* previous_hash and nonce.                                                *)
C2_StoredHashIsHashOfFields ==
    \A i \in 1..Len(chain) :
        chain[i].hash = Sha256Hex(chain[i].index, chain[i].transactions,
                                  chain[i].timestamp, chain[i].previous_hash,
                                  chain[i].nonce)

C2_Witness == Mined /\ \E i \in 2..Len(chain) : chain[i].nonce > 0

(* C3: after every step of a sequential run, each admitted transaction is  *)
(* in exactly one place, the pool or one sealed block, and a transaction   *)
(* that is in a sealed block is still in that block after the step.        *)
C3_ExactlyOnePlace ==
    [][ /\ \A id \in admitted' :
              PendingCount(pending_transactions', id) + SealedCount(chain', id) = 1
        /\ \A p \in Positions(chain) :
              /\ p \in Positions(chain')
              /\ TxAt(chain', p) = TxAt(chain, p) ]_vars

C3_Witness ==
    /\ \E id \in admitted : SealedCount(chain, id) = 1
    /\ \E id \in admitted : PendingCount(pending_transactions, id) = 1
    /\ lastOp.op = "add_transaction"

(* C4: a transaction admitted while a mine_pending_transactions call is    *)
(* in flight is not lost: every admitted transaction is in the pool or in  *)
(* a sealed block, and in at most one sealed block.                        *)
C4_NoTransactionLost ==
    \A id \in admitted :
        /\ PendingCount(pending_transactions, id) + SealedCount(chain, id) >= 1
        /\ SealedCount(chain, id) <= 1

(* C5: at most one mine_pending_transactions call is in flight, and while  *)
(* one is in flight the mine button is disabled, so a further request is   *)
(* rejected.                                                               *)
C5_OneMiningInFlight ==
    LET flying == {w \in 1..MaxThreads : InFlight(w)}
    IN  /\ Cardinality(flying) <= 1
        /\ flying # {} => mine_button = "disabled"

C5_Witness ==
    /\ \E w \in 1..MaxThreads : threads[w].pc = "pow" /\ threads[w].block.nonce > 0
    /\ Len(chain) = 2
    /\ lastOp.op = "send_transaction"

(* C6: get_balance(addr) is the sum of the amounts of the sealed           *)
(* transactions received by addr minus the sum of those sent by addr;      *)
(* the pool plays no part.                                                 *)
RECURSIVE SumAmounts(_, _)
SumAmounts(c, P) ==
    IF P = {} THEN 0
    ELSE LET p == CHOOSE q \in P : TRUE
         IN  TxAt(c, p).amount + SumAmounts(c, P \ {p})

ReceivedBy(c, a) == SumAmounts(c, {p \in Positions(c) : TxAt(c, p).to = a})
SentBy(c, a) == SumAmounts(c, {p \in Positions(c) : TxAt(c, p).from = a})

C6_BalanceIsReceivedMinusSent ==
    \A a \in Addresses \cup {"SYSTEM"} :
        get_balance(chain, a) = ReceivedBy(chain, a) - SentBy(chain, a)

C6_Witness ==
    /\ \E p \in Positions(chain) :
          TxAt(chain, p).type = "transfer" /\ TxAt(chain, p).from = TxAt(chain, p).to
    /\ pending_transactions # <<>>

(* C7: is_chain_valid() is true exactly when every block's stored hash is  *)
(* the hash of its fields and every block after the genesis block stores   *)
(* the hash of the block before it.                                        *)
C7_ValidIffAllBlocksIntact ==
    is_chain_valid(chain) <=>
        /\ \A i \in 1..Len(chain) : chain[i].hash = calculate_hash(chain[i])
        /\ \A i \in 2..Len(chain) : chain[i].previous_hash = chain[i-1].hash

(* C8: right after one field of one block of an untampered chain was       *)
(* changed, is_chain_valid() is false.                                     *)
C8_SingleChangeDetected ==
    (tampered = 1 /\ lastOp.op = "tamper") => ~is_chain_valid(chain)

(* C9: whatever the difficulty d >= 0, the hash of every block that        *)
(* mine_pending_transactions appended starts with d characters '0'.        *)
C9_LeadingZeros ==
    \A i \in 2..Len(chain) :
        /\ Len(chain[i].hash.hex) >= difficulty
        /\ \A k \in 1..difficulty : chain[i].hash.hex[k] = 0

C9_Witness == Mined /\ difficulty = HexLen /\ chain[Len(chain)].nonce > 0

(* C10: a mine_pending_transactions(r) call appends exactly one block; its *)
(* index is the chain length before the call, its previous_hash the hash   *)
(* of the block that was last, and its transactions are the pool as it was *)
(* at the start, in order, followed by one reward from SYSTEM to r of      *)
(* mining_reward.                                                          *)
C10_MineAppendsOneBlock ==
    [][ chain' # chain =>
          /\ lastOp'.op = "mine_pending_transactions"
          /\ Len(chain') = Len(chain) + 1
          /\ SubSeq(chain', 1, Len(chain)) = chain
          /\ LET b == chain'[Len(chain')]
                 n == Len(pending_transactions)
             IN  /\ b.index = Len(chain)
                 /\ b.previous_hash = chain[Len(chain)].hash
                 /\ Len(b.transactions) = n + 1
                 /\ SubSeq(b.transactions, 1, n) = pending_transactions
                 /\ b.transactions[n + 1].from = "SYSTEM"
                 /\ b.transactions[n + 1].to = lastOp'.who
                 /\ b.transactions[n + 1].amount = mining_reward
                 /\ b.transactions[n + 1].type = "mining_reward"
                 /\ \A j \in 1..n : b.transactions[j].type # "mining_reward" ]_vars

C10_Witness ==
    /\ Mined /\ Len(chain) = 3
    /\ Len(chain[2].transactions) = 1
    /\ Len(chain[3].transactions) = 3

Queries == {"get_balance", "is_chain_valid"}

(* C11: no step of add_transaction, mine_pending_transactions, get_balance *)
(* or is_chain_valid shortens the chain, and every block that is in the    *)
(* chain before the step is at the same position with the same fields      *)
(* after it.                                                               *)
C11_AppendOnly ==
    [][ /\ Len(chain') >= Len(chain)
        /\ \A i \in 1..Len(chain) : chain'[i] = chain[i] ]_vars

C11_Witness == Len(chain) = 3 /\ lastOp.op = "is_chain_valid"

(* C12: every add_transaction(tx) call, whatever the balance of the        *)
(* sender, puts tx at the end of the pool, keeps the transactions already *)
(* pending in their order and leaves the chain as it was.                  *)
C12_AddNeverRejects ==
    [][ nextId' # nextId =>
          LET n == Len(pending_transactions)
          IN  /\ Len(pending_transactions') = n + 1
              /\ SubSeq(pending_transactions', 1, n) = pending_transactions
              /\ pending_transactions'[n + 1].id = nextId
              /\ pending_transactions'[n + 1].type = "transfer"
              /\ chain' = chain ]_vars

C12_Witness ==
    /\ lastOp.op = "add_transaction"
    /\ Len(pending_transactions) = 2
    /\ LET tx == pending_transactions[2]
       IN  get_balance(chain, tx.from) < tx.amount

(* C15: get_balance and is_chain_valid change neither the chain nor the   *)
(* pool, and as long as the last call is one of them, calling it again    *)
(* gives the result it gave.                                               *)
C15_QueriesReadOnly ==
    [][ lastOp'.op \in Queries =>
          /\ chain' = chain
          /\ pending_transactions' = pending_transactions
          /\ lastOp'.op = "get_balance" =>
                 lastOp'.msg = ToString(get_balance(chain', lastOp'.who))
          /\ lastOp'.op = "is_chain_valid" =>
                 lastOp'.msg = ToString(is_chain_valid(chain')) ]_vars

C15_Witness ==
    /\ lastOp.op = "get_balance" /\ lastOp.msg = "50"
    /\ pending_transactions # <<>>

SendErrors == {"Please enter a valid amount", "Please fill all fields",
               "Amount must be positive", "Insufficient balance"}

\* a step of the shell's thread: no worker moved and the clock stood still
ShellStep == threads' = threads /\ now' = now /\ after_queue' = after_queue

(* C13: a send_transaction that ends with an error dialog leaves the pool *)
(* and the chain as they were; one that ends without an error admitted a   *)
(* transfer with both addresses filled in and 0 < amount <= the sender's   *)
(* balance.                                                                *)
C13_RejectedSendChangesNothing ==
    [][ (lastOp'.op = "send_transaction" /\ ShellStep) =>
          IF lastOp'.msg \in SendErrors
          THEN /\ pending_transactions' = pending_transactions
               /\ chain' = chain
               /\ admitted' = admitted
          ELSE \/ UNCHANGED vars
               \/ /\ pending_transactions' # pending_transactions
                  /\ LET tx == pending_transactions'[Len(pending_transactions')]
                     IN  /\ tx.from # "" /\ tx.to # ""
                         /\ tx.amount > 0
                         /\ get_balance(chain, tx.from) >= tx.amount ]_vars

C13_Witness ==
    /\ lastOp.op = "send_transaction" /\ lastOp.msg = "Insufficient balance"
    /\ Len(chain) = 2 /\ pending_transactions # <<>>

(* C14: the steps a worker takes from the start of                         *)
(* mine_pending_transactions to the end of its proof-of-work search change *)
(* neither the chain nor the pool, and an iteration of the search changes  *)
(* nothing of the candidate block but its nonce, by one, and its hash.     *)
C14_SearchLeavesLedgerAlone ==
    [][ \A w \in 1..MaxThreads :
          (threads[w].pc \in {"copy", "build", "pow"} /\ threads'[w] # threads[w]) =>
              /\ chain' = chain
              /\ pending_transactions' = pending_transactions
              /\ (threads[w].pc = "pow" /\ threads'[w].pc = "pow") =>
                     /\ threads'[w].block.nonce = threads[w].block.nonce + 1
                     /\ threads'[w].block =
                            [threads[w].block EXCEPT
                                !.nonce = threads'[w].block.nonce,
                                !.hash = threads'[w].block.hash] ]_vars

C14_Witness ==
    /\ \E w \in 1..MaxThreads :
          threads[w].pc = "pow" /\ threads[w].block.nonce >= 2
    /\ pending_transactions # <<>>

(* C16: with difficulty 0 the search increments the nonce at most once:   *)
(* every mined block has nonce 0 or 1 and a hash that is the hash of its   *)
(* fields.                                                                 *)
C16_DifficultyZero ==
    difficulty = 0 =>
        \A i \in 2..Len(chain) :
            /\ chain[i].nonce \in {0, 1}
            /\ chain[i].hash = calculate_hash(chain[i])

C16_Witness ==
    /\ difficulty = 0 /\ Mined /\ Len(chain) = 3
    /\ \E i \in 2..3 : chain[i].hash.hex[1] # 0

(* C17: on a fresh ledger holding the one pending transfer (A, B, 50), a  *)
(* mine_pending_transactions(A) call gives a chain of two blocks, an empty *)
(* pool, balance 50 for B and mining_reward - 50 for A.                    *)
C17_Scenario ==
    [][ ( /\ Len(chain) = 1
          /\ Len(pending_transactions) = 1
          /\ pending_transactions[1].from = "A"
          /\ pending_transactions[1].to = "B"
          /\ pending_transactions[1].amount = 50
          /\ lastOp'.op = "mine_pending_transactions" /\ lastOp'.who = "A"
          /\ <<chain, pending_transactions>>' # <<chain, pending_transactions>> ) =>
        ( /\ Len(chain') = 2
          /\ pending_transactions' = <<>>
          /\ get_balance(chain', "B") = 50
          /\ get_balance(chain', "A") = mining_reward - 50 ) ]_vars

C17_Witness ==
    /\ lastOp.op = "mine_pending_transactions" /\ lastOp.who = "A"
    /\ Len(chain) = 2 /\ admitted = {1} /\ pending_transactions = <<>>
    /\ Len(chain[2].transactions) = 2
    /\ chain[2].transactions[1].from = "A" /\ chain[2].transactions[1].to = "B"
    /\ get_balance(chain, "A") = 50

\* the first d characters of the digest h are all '0'
LeadingZeros(h, d) == Len(h.hex) >= d /\ \A k \in 1..d : h.hex[k] = 0

(* C19: the nonce of every mined block is the smallest n >= 0 for which   *)
(* the hash of the block's fields with nonce n has `difficulty` leading    *)
(* '0' characters.                                                         *)
C19_SmallestNonce ==
    \A i \in 2..Len(chain) :
        LET b == chain[i]
            HashWith(n) == Sha256Hex(b.index, b.transactions, b.timestamp,
                                     b.previous_hash, n)
        IN  /\ b.nonce >= 0
            /\ b.hash = HashWith(b.nonce)
            /\ LeadingZeros(HashWith(b.nonce), difficulty)
            /\ \A n \in 0..(b.nonce - 1) : ~LeadingZeros(HashWith(n), difficulty)

C19_Witness ==
    /\ Mined /\ difficulty >= 1
    /\ \E i \in 2..Len(chain) : chain[i].nonce >= 3

(* C20: with no field overwritten, is_chain_valid() is true in every       *)
(* state, also while a worker is anywhere between the start and the end    *)
(* of mine_pending_transactions.                                           *)
C20_AlwaysValid == is_chain_valid(chain)

C20_Witness ==
    /\ \E w \in 1..MaxThreads : threads[w].pc = "clear" /\ threads[w].block.nonce > 0
    /\ Len(chain) = 3
    /\ lastOp.op = "send_transaction"

\* a worker has just been started while the chain has n blocks
Started(n) ==
    /\ mine_button = "disabled" /\ Len(chain) = n
    /\ \E w \in 1..MaxThreads : threads[w].pc = "copy"

\* mine_pending_transactions has just returned: one sealed block more, and
\* the pool empty
Returning(n) ==
    /\ \E w \in 1..MaxThreads : threads[w].pc = "post"
    /\ Len(chain) = n + 1
    /\ LeadingZeros(chain[n + 1].hash, difficulty)
    /\ pending_transactions = <<>>

\* the mine button can be used again, and the chain has one block more
Reenabled(n) ==
    /\ mine_button = "normal" /\ Running = {} /\ after_queue = <<>>
    /\ Len(chain) = n + 1

(* C18: every mining operation the shell starts leads to the return of     *)
(* mine_pending_transactions with exactly one sealed block appended and    *)
(* the pool empty, and then to the mine button being enabled again.        *)
C18_MiningCompletes ==
    \A n \in 1..MaxChain :
        /\ Started(n) ~> Returning(n)
        /\ Started(n) ~> Reenabled(n)

C18_Witness ==
    /\ lastOp.op = "_mining_complete" /\ mine_button = "normal"
    /\ Len(chain) = 3 /\ chain[3].nonce > 0

(* C21: with every transfer sent through send_transaction and every block *)
(* mined through mine_block, get_balance(a) >= 0 for every address a other *)
(* than SYSTEM, in every state.                                            *)
C21_BalancesNonNegative == \A a \in Addresses : get_balance(chain, a) >= 0

\* the workers whose candidate block has been constructed
Built == {w \in 1..MaxThreads : threads[w].pc \in {"pow", "append", "clear", "post"}}

(* C22: an add_transaction call made while a block is being mined, or      *)
(* after it was appended, leaves the transaction list of that block as it  *)
(* was when the block was constructed, and the block's stored hash is      *)
(* still the hash of its fields.                                           *)
C22_TransactionListFixed ==
    [][ nextId' # nextId =>
          /\ \A i \in 1..Len(chain) :
                /\ chain'[i].transactions = chain[i].transactions
                /\ chain'[i].hash = calculate_hash(chain'[i])
          /\ \A w \in Built :
                /\ threads'[w].block.transactions = threads[w].block.transactions
                /\ threads'[w].block.hash = calculate_hash(threads'[w].block) ]_vars

C22_Witness ==
    /\ lastOp.msg = "Transaction added to pending list!"
    /\ Len(pending_transactions) = 2
    /\ \E w \in Built :
          /\ threads[w].pc = "pow" /\ threads[w].block.nonce > 0
          /\ Len(threads[w].block.transactions) = 2
          /\ threads[w].block.transactions[1] = pending_transactions[1]

RECURSIVE SumBalances(_, _)
SumBalances(c, S) ==
    IF S = {} THEN 0
    ELSE LET a == CHOOSE x \in S : TRUE
         IN  get_balance(c, a) + SumBalances(c, S \ {a})

(* C23: in every state the balances of all addresses, SYSTEM included,     *)
(* add up to 0, and the balances of the addresses other than SYSTEM add up *)
(* to mining_reward times the number of blocks after the genesis block.    *)
C23_CoinsOnlyFromRewards ==
    /\ SumBalances(chain, Addresses \cup {"SYSTEM"}) = 0
    /\ SumBalances(chain, Addresses) = mining_reward * (Len(chain) - 1)

====
